---- MODULE Spec2Model ----
(***************************************************************************)
(* A model of ocicat/parser.py: the category algebra, substitute, unify,   *)
(* the combinator rules, the tree-directed search (trees, lift, count,     *)
(* dparse1, dparse) and the rewrite-queue search (parse).                  *)
(*                                                                         *)
(* Categories are tuples: <<"A", name>> is Atomic(name), <<"U", id>> is    *)
(* Unbound(uuid=id), <<"L", arg, ret>> is Left(arg, ret) and               *)
(* <<"R", arg, ret>> is Right(arg, ret).  uuid4() is a counter: every      *)
(* function that mints variables takes the next unused id.  A function     *)
(* returning "X | None" returns a record with an ok flag.                  *)
(***************************************************************************)
EXTENDS Integers, Sequences, FiniteSets, TLC

VARIABLES x, y, op, res,
          lcat, rcat, loop, level, pos, fresh, tried, iters, ret,
          cats, ti, called, yielded,
          input, queue, minted, out, pops, pc

vars == <<x, y, op, res,
          lcat, rcat, loop, level, pos, fresh, tried, iters, ret,
          cats, ti, called, yielded,
          input, queue, minted, out, pops, pc>>

ruleVars  == <<x, y, op, res>>
nodeVars  == <<lcat, rcat, loop, level, pos, fresh, tried, iters, ret>>
treeVars  == <<cats, ti, called, yielded>>
queueVars == <<input, queue, minted, out, pops, pc>>

---------------------------------------------------------------------------
(* Bounds of the model.                                                    *)

\* ids of the Unbound variables an input may hold
NumVars == 2
\* largest count(x) + count(y) of an input pair of categories
MaxSize == 2
\* longest input sequence of dparse
MaxLen == 3
\* longest input sequence of parse
MaxQueueLen == 2
\* iterations of parse's while loop that are explored
MaxPops == 6

---------------------------------------------------------------------------
(* Category algebra.                                                       *)

Atomic(name) == <<"A", name>>
Unbound(id) == <<"U", id>>
Left(arg, r) == <<"L", arg, r>>
Right(arg, r) == <<"R", arg, r>>

IsAtomic(c) == c[1] = "A"
IsUnbound(c) == c[1] = "U"
IsLeft(c) == c[1] = "L"
IsRight(c) == c[1] = "R"

\* the atoms the module itself builds, and those of them the rule inputs use
AtomNames == {"w", "x", "y", "z"}
RuleAtomNames == {"x", "y"}

NoCat == <<"None">>
None == [ok |-> FALSE, subs |-> <<>>]
Some(s) == [ok |-> TRUE, subs |-> s]
NoResult == [ok |-> FALSE, cat |-> NoCat, subs |-> <<>>]
Result(c, s) == [ok |-> TRUE, cat |-> c, subs |-> s]

---------------------------------------------------------------------------
(* substitute, unbounds, count, unify.                                     *)

RECURSIVE Lookup(_, _, _)
Lookup(subs, cat, i) ==
    IF i > Len(subs) THEN 0
    ELSE IF cat = subs[i][1] THEN i
    ELSE Lookup(subs, cat, i + 1)

RECURSIVE substitute(_, _)
substitute(subs, cat) ==
    LET i == Lookup(subs, cat, 1) IN
    IF i # 0 THEN subs[i][2]
    ELSE IF IsLeft(cat) THEN Left(substitute(subs, cat[2]), substitute(subs, cat[3]))
    ELSE IF IsRight(cat) THEN Right(substitute(subs, cat[2]), substitute(subs, cat[3]))
    ELSE cat

RECURSIVE unbounds(_)
\* unbounds without the recursion into Left and Right
unbounds_shallow(cat) == IF IsUnbound(cat) THEN {cat} ELSE {}

unbounds(cat) ==
    IF IsUnbound(cat) THEN {cat}
    ELSE IF IsLeft(cat) \/ IsRight(cat) THEN unbounds(cat[2]) \cup unbounds(cat[3])
    ELSE {}

RECURSIVE count(_)
count(cat) ==
    IF IsLeft(cat) \/ IsRight(cat) THEN count(cat[2]) + count(cat[3]) + 1
    ELSE 0

Tail2(s) == SubSeq(s, 2, Len(s))

SubstEqs(sub, eqs) ==
    [i \in 1..Len(eqs) |-> <<substitute(sub, eqs[i][1]), substitute(sub, eqs[i][2])>>]

RECURSIVE unify(_)
unifyBind(v, t, rest) ==
    LET subs == unify(SubstEqs(<< <<v, t>> >>, rest)) IN
    IF subs.ok THEN Some(Append(subs.subs, <<v, t>>)) ELSE None

unify(eqs) ==
    IF eqs = <<>> THEN Some(<<>>)
    ELSE LET lhs == eqs[1][1]
             rhs == eqs[1][2]
             rest == Tail2(eqs)
         IN IF lhs = rhs THEN unify(rest)
            ELSE IF IsUnbound(lhs) /\ lhs \notin unbounds(rhs) THEN unifyBind(lhs, rhs, rest)
            ELSE IF IsUnbound(rhs) /\ rhs \notin unbounds(lhs) THEN unifyBind(rhs, lhs, rest)
            ELSE IF (IsRight(lhs) /\ IsRight(rhs)) \/ (IsLeft(lhs) /\ IsLeft(rhs))
                 THEN unify(rest \o << <<lhs[2], rhs[2]>>, <<lhs[3], rhs[3]>> >>)
            ELSE None

---------------------------------------------------------------------------
(* Combinator rules.  n is the id uuid4() gives the first variable minted. *)

left_type_raising(c, n) == Result(Right(Left(c, Unbound(n)), Unbound(n)), <<>>)

right_type_raising(c, n) == Result(Left(Right(c, Unbound(n)), Unbound(n)), <<>>)

FromUnify(c, subs) == IF subs.ok THEN Result(c, subs.subs) ELSE NoResult

\* left_composition unifying the boundary right_composition unifies
left_composition_wrongBoundary(a, b, n) ==
    IF IsUnbound(a) /\ IsUnbound(b)
    THEN LET arg == Unbound(n)
             mid == Unbound(n + 1)
             r == Unbound(n + 2)
         IN Result(Left(arg, r), << <<a, Left(mid, r)>>, <<b, Left(arg, mid)>> >>)
    ELSE IF IsUnbound(a) /\ IsLeft(b)
    THEN LET r == Unbound(n) IN Result(Left(b[2], r), << <<a, Left(b[3], r)>> >>)
    ELSE IF IsLeft(a) /\ IsUnbound(b)
    THEN LET arg == Unbound(n) IN Result(Left(arg, a[3]), << <<b, Left(arg, a[2])>> >>)
    ELSE IF IsLeft(a) /\ IsLeft(b)
    THEN FromUnify(Left(b[2], a[3]), unify(<< <<a[3], b[2]>> >>))
    ELSE NoResult

left_composition(a, b, n) ==
    IF IsUnbound(a) /\ IsUnbound(b)
    THEN LET arg == Unbound(n)
             mid == Unbound(n + 1)
             r == Unbound(n + 2)
         IN Result(Left(arg, r), << <<a, Left(mid, r)>>, <<b, Left(arg, mid)>> >>)
    ELSE IF IsUnbound(a) /\ IsLeft(b)
    THEN LET r == Unbound(n) IN Result(Left(b[2], r), << <<a, Left(b[3], r)>> >>)
    ELSE IF IsLeft(a) /\ IsUnbound(b)
    THEN LET arg == Unbound(n) IN Result(Left(arg, a[3]), << <<b, Left(arg, a[2])>> >>)
    ELSE IF IsLeft(a) /\ IsLeft(b)
    THEN FromUnify(Left(b[2], a[3]), unify(<< <<a[2], b[3]>> >>))
    ELSE NoResult

right_composition(a, b, n) ==
    IF IsUnbound(a) /\ IsUnbound(b)
    THEN LET arg == Unbound(n)
             mid == Unbound(n + 1)
             r == Unbound(n + 2)
         IN Result(Right(arg, r), << <<a, Right(arg, mid)>>, <<b, Right(mid, r)>> >>)
    ELSE IF IsUnbound(a) /\ IsRight(b)
    THEN LET arg == Unbound(n) IN Result(Right(arg, b[3]), << <<a, Right(arg, b[2])>> >>)
    ELSE IF IsRight(a) /\ IsUnbound(b)
    THEN LET r == Unbound(n) IN Result(Right(a[2], r), << <<b, Right(a[3], r)>> >>)
    ELSE IF IsRight(a) /\ IsRight(b)
    THEN FromUnify(Right(a[2], b[3]), unify(<< <<a[3], b[2]>> >>))
    ELSE NoResult

left_application(a, b, n) ==
    IF IsUnbound(a)
    THEN LET r == Unbound(n) IN Result(r, << <<a, Left(b, r)>> >>)
    ELSE IF IsLeft(a)
    THEN FromUnify(a[3], unify(<< <<a[2], b>> >>))
    ELSE NoResult

\* right_application taking its first operand for the functor
right_application_functorFirst(a, b, n) ==
    IF IsUnbound(a)
    THEN LET r == Unbound(n) IN Result(r, << <<a, Right(b, r)>> >>)
    ELSE IF IsRight(a)
    THEN FromUnify(a[3], unify(<< <<a[2], b>> >>))
    ELSE NoResult

right_application(a, b, n) ==
    IF IsUnbound(b)
    THEN LET r == Unbound(n) IN Result(r, << <<b, Right(a, r)>> >>)
    ELSE IF IsRight(b)
    THEN FromUnify(b[3], unify(<< <<b[2], a>> >>))
    ELSE NoResult

---------------------------------------------------------------------------
(* Inputs: the categories of a given count over the atoms and NumVars      *)
(* variables.                                                              *)

Leaves == {Atomic(a) : a \in RuleAtomNames} \cup {Unbound(i) : i \in 1..NumVars}

RECURSIVE CatsOfCount(_)
CatsOfCount(k) ==
    IF k = 0 THEN Leaves
    ELSE UNION {LET P == CatsOfCount(i) \X CatsOfCount(k - 1 - i)
                IN {Left(p[1], p[2]) : p \in P} \cup {Right(p[1], p[2]) : p \in P}
                : i \in 0..(k - 1)}

\* uuid4() never returns the id of an existing variable
FirstFresh == NumVars + 1

NoIters == [left |-> 0, right |-> 0]

IdleRules == x = NoCat /\ y = NoCat /\ op = "idle" /\ res = NoResult
IdleNode == /\ lcat = NoCat /\ rcat = NoCat /\ loop = "idle" /\ level = 0 /\ pos = 0
            /\ fresh = 0 /\ tried = <<>> /\ iters = NoIters /\ ret = NoCat
IdleTree == cats = <<>> /\ ti = 0 /\ called = <<>> /\ yielded = <<>>
IdleQueue == /\ input = <<>> /\ queue = <<>> /\ minted = 0 /\ out = <<>>
             /\ pops = 0 /\ pc = "idle"

---------------------------------------------------------------------------
(* The unifier and the binary rules applied to one pair (x, y) of          *)
(* categories with count(x) + count(y) <= MaxSize.                         *)

InputPairs ==
    UNION {CatsOfCount(p[1]) \X CatsOfCount(p[2]) :
           p \in {q \in (0..MaxSize) \X (0..MaxSize) : q[1] + q[2] <= MaxSize}}

InitRules ==
    /\ \E p \in InputPairs : x = p[1] /\ y = p[2]
    /\ op = "init"
    /\ res = NoResult
    /\ IdleNode /\ IdleTree /\ IdleQueue

Apply(name, r) ==
    /\ op = "init"
    /\ op' = name
    /\ res' = r
    /\ UNCHANGED <<x, y, nodeVars, treeVars, queueVars>>

Unify == Apply("unify", FromUnify(NoCat, unify(<< <<x, y>> >>)))
LeftApplication == Apply("left_application", left_application(x, y, FirstFresh))
RightApplication == Apply("right_application", right_application(x, y, FirstFresh))
LeftComposition == Apply("left_composition", left_composition(x, y, FirstFresh))
RightComposition == Apply("right_composition", right_composition(x, y, FirstFresh))

NextRules ==
    \/ Unify
    \/ LeftApplication
    \/ RightApplication
    \/ LeftComposition
    \/ RightComposition

SpecRules == InitRules /\ [][NextRules]_vars

---------------------------------------------------------------------------
(* lift, and the two lifting loops of dparse1 at one internal node whose   *)
(* children resolved to (lcat, rcat).  One action is one iteration of a    *)
(* for loop: the next category of the generator lift(cat), the break test, *)
(* and the inner loop over the two application rules.                      *)

\* the variables lift(cat, n) mints
Used(n) == 2^(n + 1) - 2

\* lift(cat, n), n >= 0: the categories it yields, in order; f is the first
\* unused variable id
RECURSIVE LiftLevel(_, _, _)
LiftLevel(cat, n, f) ==
    IF n = 0 THEN <<cat>>
    ELSE LET g == f + 1 + Used(n - 1)
         IN LiftLevel(right_type_raising(cat, f).cat, n - 1, f + 1)
            \o LiftLevel(left_type_raising(cat, g).cat, n - 1, g + 1)

\* the break test of a lifting loop
ShouldBreak_oneLevelLate(variant, other) == count(variant) > count(other) + 2

ShouldBreak(variant, other) == count(variant) > count(other)

\* the inner loop: for rule in [left_application, right_application]
TryRules_rightFirst(l, r, n) ==
    LET first == right_application(l, r, n)
        second == left_application(l, r, n)
    IN IF first.ok THEN [rules |-> <<"right_application">>, result |-> first]
       ELSE [rules |-> <<"right_application", "left_application">>, result |-> second]

TryRules(l, r, n) ==
    LET first == left_application(l, r, n)
        second == right_application(l, r, n)
    IN IF first.ok THEN [rules |-> <<"left_application">>, result |-> first]
       ELSE [rules |-> <<"left_application", "right_application">>, result |-> second]

\* one iteration of "for lcatn in lift(lcat)" (side "left") or of
\* "for rcatn in lift(rcat)" (side "right"), the generator being at the
\* n-th category of raise count k and f the first unused variable id
LoopIteration(side, l, r, k, n, f) ==
    LET variant == LiftLevel(IF side = "left" THEN l ELSE r, k, f)[n + 1]
        cand == IF side = "left" THEN <<variant, r>> ELSE <<l, variant>>
    IN IF ShouldBreak(variant, IF side = "left" THEN r ELSE l)
       THEN [kind |-> "break", cand |-> cand, rules |-> <<>>, result |-> NoResult]
       ELSE LET t == TryRules(cand[1], cand[2], f + Used(k))
            IN [kind |-> IF t.result.ok THEN "return" ELSE "continue",
                cand |-> cand, rules |-> t.rules, result |-> t.result]

\* categories of count 4 and 5: a leaf raised twice, alone or as the
\* argument of a functor
RaisedTwice ==
    UNION {{LiftLevel(c, 2, FirstFresh)[i] : i \in 1..4} : c \in Leaves}

Deep ==
    RaisedTwice
    \cup {Right(t, Atomic(a)) : t \in RaisedTwice, a \in RuleAtomNames}
    \cup {Left(t, Atomic(a)) : t \in RaisedTwice, a \in RuleAtomNames}

NodePairs == InputPairs \cup (Leaves \X Deep) \cup (Deep \X Leaves)

\* the ids below it are those of the variables of the inputs
NodeFirstFresh == NumVars + 7

InitNode ==
    /\ \E p \in NodePairs : lcat = p[1] /\ rcat = p[2]
    /\ loop = "left"
    /\ level = 0
    /\ pos = 0
    /\ fresh = NodeFirstFresh
    /\ tried = <<>>
    /\ iters = NoIters
    /\ ret = NoCat
    /\ IdleRules /\ IdleTree /\ IdleQueue

\* the iteration the node is about to run
Iteration == LoopIteration(loop, lcat, rcat, level, pos, fresh)

Attempt(it) ==
    [loop |-> loop, k |-> level, n |-> pos, cand |-> it.cand,
     rules |-> it.rules, result |-> it.result]

\* the generator moves on: the next category of this level, or the first
\* of the next
Advance ==
    IF pos + 1 < 2^level
    THEN level' = level /\ pos' = pos + 1 /\ fresh' = fresh
    ELSE level' = level + 1 /\ pos' = 0 /\ fresh' = fresh + Used(level) + 1

Return ==
    /\ Iteration.kind = "return"
    /\ tried' = Append(tried, Attempt(Iteration))
    /\ iters' = [iters EXCEPT ![loop] = @ + 1]
    /\ ret' = substitute(Iteration.result.subs, Iteration.result.cat)
    /\ loop' = "done"
    /\ UNCHANGED <<lcat, rcat, level, pos, fresh, ruleVars, treeVars, queueVars>>

Continue ==
    /\ Iteration.kind = "continue"
    /\ tried' = Append(tried, Attempt(Iteration))
    /\ iters' = [iters EXCEPT ![loop] = @ + 1]
    /\ Advance
    /\ UNCHANGED <<lcat, rcat, loop, ret, ruleVars, treeVars, queueVars>>

LeftLoopBreak ==
    /\ loop = "left"
    /\ Iteration.kind = "break"
    /\ loop' = "right"
    /\ level' = 0
    /\ pos' = 0
    /\ fresh' = fresh + Used(level) + 1
    /\ iters' = [iters EXCEPT ![loop] = @ + 1]
    /\ UNCHANGED <<lcat, rcat, tried, ret, ruleVars, treeVars, queueVars>>

LeftLoopReturn == loop = "left" /\ Return

LeftLoopContinue == loop = "left" /\ Continue

\* the second loop ends and dparse1 falls off its end: None
RightLoopBreak ==
    /\ loop = "right"
    /\ Iteration.kind = "break"
    /\ loop' = "done"
    /\ iters' = [iters EXCEPT ![loop] = @ + 1]
    /\ ret' = NoCat
    /\ UNCHANGED <<lcat, rcat, level, pos, fresh, tried, ruleVars, treeVars, queueVars>>

RightLoopReturn == loop = "right" /\ Return

RightLoopContinue == loop = "right" /\ Continue

NextNode ==
    \/ LeftLoopBreak
    \/ LeftLoopReturn
    \/ LeftLoopContinue
    \/ RightLoopBreak
    \/ RightLoopReturn
    \/ RightLoopContinue

SpecNode == InitNode /\ [][NextNode]_vars

---------------------------------------------------------------------------
(* trees, dparse1 and dparse.  A Tree is a category or <<"T", l, r>> for   *)
(* the pair (l, r).  One action is one iteration of dparse's for loop.     *)

Pair(l, r) == <<"T", l, r>>
IsPair(t) == t[1] = "T"

\* for left in ls: for right in rs: yield (left, right)
Pairs(ls, rs) ==
    [k \in 1..(Len(ls) * Len(rs)) |->
        Pair(ls[((k - 1) \div Len(rs)) + 1], rs[((k - 1) % Len(rs)) + 1])]

RECURSIVE trees(_), treesFrom(_, _)
\* the loop of trees stopping one split short
treesFrom_skipLast(cs, i) ==
    IF i >= Len(cs) - 1 THEN <<>>
    ELSE Pairs(trees(SubSeq(cs, 1, i)), trees(SubSeq(cs, i + 1, Len(cs))))
         \o treesFrom(cs, i + 1)

\* the iterations i, i + 1, ... of "for i in range(1, len(cats))"
treesFrom(cs, i) ==
    IF i >= Len(cs) THEN <<>>
    ELSE Pairs(trees(SubSeq(cs, 1, i)), trees(SubSeq(cs, i + 1, Len(cs))))
         \o treesFrom(cs, i + 1)

trees(cs) == IF Len(cs) = 1 THEN <<cs[1]>> ELSE treesFrom(cs, 1)

\* a lifting loop of dparse1 run from an iteration on: the category
\* returned, or ok = FALSE when the loop breaks
RECURSIVE LiftLoop(_, _, _, _, _, _)
LiftLoop(side, l, r, k, n, f) ==
    LET it == LoopIteration(side, l, r, k, n, f)
        g == f + Used(k) + 1
    IN IF it.kind = "break" THEN [ok |-> FALSE, cat |-> NoCat, fresh |-> g]
       ELSE IF it.kind = "return"
       THEN [ok |-> TRUE, cat |-> substitute(it.result.subs, it.result.cat), fresh |-> g]
       ELSE IF n + 1 < 2^k THEN LiftLoop(side, l, r, k, n + 1, f)
       ELSE LiftLoop(side, l, r, k + 1, 0, g)

\* dparse1(tree): cat is the category returned, NoCat for None
RECURSIVE dparse1(_, _)
dparse1(tree, f) ==
    IF ~IsPair(tree) THEN [ok |-> TRUE, cat |-> tree, fresh |-> f]
    ELSE LET lr == dparse1(tree[2], f)
             rr == dparse1(tree[3], lr.fresh)
         IN IF ~lr.ok \/ ~rr.ok THEN [ok |-> FALSE, cat |-> NoCat, fresh |-> rr.fresh]
            ELSE LET first == LiftLoop("left", lr.cat, rr.cat, 0, 0, rr.fresh)
                 IN IF first.ok THEN first
                    ELSE LiftLoop("right", lr.cat, rr.cat, 0, 0, first.fresh)

\* the categories of the input sequences of dparse: atoms and functors over
\* atoms
TreePool ==
    LET atoms == {Atomic(a) : a \in RuleAtomNames}
    IN atoms \cup {Left(a, b) : a, b \in atoms} \cup {Right(a, b) : a, b \in atoms}

\* the sequence of the claim about dparse, [c < b, a, a > b] for atoms a, b, c
Example(a, b, c) == <<Left(Atomic(b), Atomic(c)), Atomic(a), Right(Atomic(a), Atomic(b))>>

\* the sequence the module itself parses: [z < ((w < y) > w), x, x > y]
OwnInput ==
    <<Left(Right(Left(Atomic("y"), Atomic("w")), Atomic("w")), Atomic("z")),
      Atomic("x"),
      Right(Atomic("x"), Atomic("y"))>>

TreeInputs ==
    UNION {[1..n -> TreePool] : n \in 0..MaxLen}
    \cup {Example(a, b, c) : a, b, c \in AtomNames}
    \cup {OwnInput}

InitTree ==
    /\ cats \in TreeInputs
    /\ ti = 0
    /\ called = <<>>
    /\ yielded = <<>>
    /\ IdleRules /\ IdleNode /\ IdleQueue

\* the tree the generator trees(cats) yields next
NextTreeOf == trees(cats)[ti + 1]

\* one iteration of "for tree in trees(cats)" whose dparse1 gives a category
DparseYield ==
    /\ ti < Len(trees(cats))
    /\ dparse1(NextTreeOf, FirstFresh).ok
    /\ ti' = ti + 1
    /\ called' = Append(called, NextTreeOf)
    /\ yielded' = Append(yielded, dparse1(NextTreeOf, FirstFresh).cat)
    /\ UNCHANGED <<cats, ruleVars, nodeVars, queueVars>>

\* one iteration whose dparse1 gives None
DparseSkip ==
    /\ ti < Len(trees(cats))
    /\ ~dparse1(NextTreeOf, FirstFresh).ok
    /\ ti' = ti + 1
    /\ called' = Append(called, NextTreeOf)
    /\ UNCHANGED <<cats, yielded, ruleVars, nodeVars, queueVars>>

NextTree ==
    \/ DparseYield
    \/ DparseSkip

SpecTree == InitTree /\ [][NextTree]_vars

---------------------------------------------------------------------------
(* Claims about the lifting loops, under SpecNode.                         *)

\* the category an attempt lifted, and the one it left as it was
Lifted(e) == IF e.loop = "left" THEN e.cand[1] ELSE e.cand[2]
Original(e) == IF e.loop = "left" THEN lcat ELSE rcat
Other(e) == IF e.loop = "left" THEN rcat ELSE lcat

\* iterations of a loop lifting a category of count c against one of count
\* o: the candidates of raise count k with c + 2k <= o, and the one that
\* breaks
NumCandidates(c, o) == IF c > o THEN 0 ELSE 2^((o - c) \div 2 + 1) - 1
IterBound(c, o) == NumCandidates(c, o) + 1

\* C7: every lifted variant tried with raise count k has
\* count = count(original) + 2k and count <= count(other side), so
\* k <= (count(other) - count(original)) / 2, and the iterations of each
\* loop are bounded by a function of count(lcat) and count(rcat) alone.
C7_LiftBound ==
    loop # "idle" =>
        /\ \A i \in 1..Len(tried) :
               LET e == tried[i] IN
               /\ count(Lifted(e)) = count(Original(e)) + 2 * e.k
               /\ count(Lifted(e)) <= count(Other(e))
               /\ 2 * e.k <= count(Other(e)) - count(Original(e))
        /\ iters.left <= IterBound(count(lcat), count(rcat))
        /\ iters.right <= IterBound(count(rcat), count(lcat))
        /\ loop = "right" => iters.left = IterBound(count(lcat), count(rcat))

C7_Witness ==
    /\ loop = "right"
    /\ Len(tried) = 7
    /\ tried[7].k = 2
    /\ iters.left = 8

Phase(e) == IF e.k = 0 THEN 0 ELSE IF e.loop = "left" THEN 1 ELSE 2

InOrder(e, f) ==
    \/ Phase(e) < Phase(f)
    \/ Phase(e) = 0 /\ Phase(f) = 0 /\ e.loop = "left" /\ f.loop = "right"
    \/ Phase(e) = Phase(f) /\ Phase(e) > 0 /\ (e.k < f.k \/ (e.k = f.k /\ e.n < f.n))

\* C9: the unmodified pair is attempted before any lifted variant; the
\* attempts come in the order unmodified, left-lifted by increasing raise
\* count against the unmodified rcat, right-lifted by increasing raise count
\* against the unmodified lcat, left_application before right_application
\* on each; the node returns the substituted result of the first attempt
\* that succeeds, and fails only when every candidate has failed.
C9_AttemptOrder ==
    loop # "idle" =>
        LET n == Len(tried) IN
        /\ n >= 1 => (tried[1].k = 0 /\ tried[1].cand = <<lcat, rcat>>)
        /\ loop = "done" => n >= 1
        /\ \A i \in 1..n : \A j \in (i + 1)..n : InOrder(tried[i], tried[j])
        /\ \A i \in 1..n :
               LET e == tried[i] IN
               /\ e.k = 0 => e.cand = <<lcat, rcat>>
               /\ e.loop = "left" => e.cand[2] = rcat
               /\ e.loop = "right" => e.cand[1] = lcat
               /\ e.rules[1] = "left_application"
               /\ Len(e.rules) = 1 => e.result = left_application(e.cand[1], e.cand[2], fresh + Used(e.k))
               /\ Len(e.rules) = 2 =>
                      /\ e.rules[2] = "right_application"
                      /\ ~left_application(e.cand[1], e.cand[2], fresh + Used(e.k)).ok
                      /\ e.result = right_application(e.cand[1], e.cand[2], fresh + Used(e.k))
               /\ i < n => ~e.result.ok
        /\ (loop = "done" /\ ret # NoCat) =>
               /\ tried[n].result.ok
               /\ ret = substitute(tried[n].result.subs, tried[n].result.cat)
        /\ (loop = "done" /\ ret = NoCat) =>
               /\ ~tried[n].result.ok
               /\ n = NumCandidates(count(lcat), count(rcat))
                      + NumCandidates(count(rcat), count(lcat))
        /\ loop # "done" => ret = NoCat

C9_Witness ==
    /\ loop = "done"
    /\ ret # NoCat
    /\ Len(tried) = 6
    /\ tried[6].loop = "left"
    /\ tried[6].k = 2
    /\ Len(tried[6].rules) = 2

---------------------------------------------------------------------------
(* parse.  One action is one iteration of its while loop: the pop, and     *)
(* either the yield of a singleton or the appends of every successor.      *)

\* unary_rules[r], binary_rules[r]
UnaryRule(r, c, n) ==
    IF r = 1 THEN right_type_raising(c, n) ELSE left_type_raising(c, n)

BinaryRule(r, a, b, n) ==
    IF r = 1 THEN right_composition(a, b, n)
    ELSE IF r = 2 THEN left_composition(a, b, n)
    ELSE IF r = 3 THEN right_application(a, b, n)
    ELSE left_application(a, b, n)

\* [substitute(subs, c) for c in [*cs[:i], cat, *cs[i+width:]]], i from 1
Rewritten(cs, i, width, result) ==
    LET new_cats == SubSeq(cs, 1, i - 1) \o <<result.cat>> \o SubSeq(cs, i + width, Len(cs))
    IN [j \in 1..Len(new_cats) |-> substitute(result.subs, new_cats[j])]

\* the sequences the unary loops append, rule by rule and position by
\* position; f is the first unused variable id
UnarySuccessors_firstRuleOnly(cs, f) ==
    LET n == Len(cs)
    IN [k \in 1..n |-> Rewritten(cs, k, 1, UnaryRule(1, cs[k], f + k))]

UnarySuccessors(cs, f) ==
    LET n == Len(cs)
    IN [k \in 1..(2 * n) |->
           LET r == ((k - 1) \div n) + 1
               i == ((k - 1) % n) + 1
           IN Rewritten(cs, i, 1, UnaryRule(r, cs[i], f + k))]

\* the calls of the binary loops, rule by rule and position by position
BinaryCalls(cs, f) ==
    LET m == IF Len(cs) = 0 THEN 0 ELSE Len(cs) - 1
    IN [k \in 1..(4 * m) |->
           LET r == ((k - 1) \div m) + 1
               i == ((k - 1) % m) + 1
               result == BinaryRule(r, cs[i], cs[i + 1], f + 3 * k)
           IN [ok |-> result.ok,
               new_cats |-> IF result.ok THEN Rewritten(cs, i, 2, result) ELSE <<>>]]

IsOk(call) == call.ok

\* the sequences the binary loops append: the calls that did not give None
BinarySuccessors(cs, f) ==
    LET calls == SelectSeq(BinaryCalls(cs, f), IsOk)
    IN [k \in 1..Len(calls) |-> calls[k].new_cats]

\* the variables one iteration may mint
MintedBy(cs) == 2 * Len(cs) + 12 * Len(cs) + 3

\* the categories of the input sequences of parse
ParsePool == Leaves \cup TreePool

InitParse ==
    /\ input \in UNION {[1..n -> ParsePool] : n \in 0..MaxQueueLen}
    /\ queue = <<input>>
    /\ minted = FirstFresh
    /\ out = <<>>
    /\ pops = 0
    /\ pc = "loop"
    /\ IdleRules /\ IdleNode /\ IdleTree

\* an iteration that pops a singleton: yield, continue
ParseYield ==
    /\ pc = "loop"
    /\ pops < MaxPops
    /\ queue # <<>>
    /\ Len(Head(queue)) = 1
    /\ out' = Append(out, Head(queue)[1])
    /\ queue' = Tail(queue)
    /\ pops' = pops + 1
    /\ UNCHANGED <<input, minted, pc, ruleVars, nodeVars, treeVars>>

\* an iteration that pops any other sequence: every unary rule at every
\* position, then every binary rule at every adjacent pair
ParseExpand ==
    /\ pc = "loop"
    /\ pops < MaxPops
    /\ queue # <<>>
    /\ Len(Head(queue)) # 1
    /\ queue' = Tail(queue)
                \o UnarySuccessors(Head(queue), minted)
                \o BinarySuccessors(Head(queue), minted + 2 * Len(Head(queue)))
    /\ minted' = minted + MintedBy(Head(queue))
    /\ pops' = pops + 1
    /\ UNCHANGED <<input, out, pc, ruleVars, nodeVars, treeVars>>

\* the loop condition len(queue) > 0 fails
ParseEnd ==
    /\ pc = "loop"
    /\ queue = <<>>
    /\ pc' = "done"
    /\ UNCHANGED <<input, queue, minted, out, pops, ruleVars, nodeVars, treeVars>>

NextParse ==
    \/ ParseYield
    \/ ParseExpand
    \/ ParseEnd

SpecParse == InitParse /\ [][NextParse]_vars

---------------------------------------------------------------------------
(* Claims about trees and dparse, under SpecTree.                          *)

\* dparse has run its loop to the end
Exhausted == ti = Len(trees(cats))

\* C5: for pairwise distinct atoms a, b, c, dparse([c < b, a, a > b]) yields
\* at least one result and one of the results is c.
C5_Example ==
    \A a, b, c \in AtomNames :
        (a # b /\ a # c /\ b # c /\ cats = Example(a, b, c) /\ Exhausted) =>
            /\ Len(yielded) >= 1
            /\ \E i \in 1..Len(yielded) : yielded[i] = Atomic(c)

C5_Witness ==
    /\ cats = Example("x", "y", "z")
    /\ Exhausted
    /\ yielded = <<Atomic("z")>>

\* Catalan(n) = Catalan(n - 1) * 2 (2n - 1) / (n + 1)
RECURSIVE Catalan(_)
Catalan(n) == IF n = 0 THEN 1 ELSE (Catalan(n - 1) * 2 * (2 * n - 1)) \div (n + 1)

\* the leaves of a tree, left to right
RECURSIVE Fringe(_)
Fringe(t) == IF IsPair(t) THEN Fringe(t[2]) \o Fringe(t[3]) ELSE <<t>>

\* C6: for an input of length n >= 1, trees yields Catalan(n - 1) trees, no
\* tree twice, each a bracketing whose leaves left to right are the input,
\* and dparse calls dparse1 on each of them once, in that order, whether or
\* not earlier trees failed.
C6_Bracketings ==
    Len(cats) >= 1 =>
        LET ts == trees(cats) IN
        /\ Len(ts) = Catalan(Len(cats) - 1)
        /\ \A i, j \in 1..Len(ts) : i # j => ts[i] # ts[j]
        /\ \A i \in 1..Len(ts) : Fringe(ts[i]) = cats
        /\ ti <= Len(ts)
        /\ called = SubSeq(ts, 1, ti)
        /\ Len(yielded) <= ti

\* all trees tried, a failure before a success
C6_Witness ==
    /\ Len(cats) = MaxLen
    /\ Exhausted
    /\ called = trees(cats)
    /\ ~dparse1(called[1], FirstFresh).ok
    /\ Len(yielded) >= 1

---------------------------------------------------------------------------
(* Claims about parse, under SpecParse.                                    *)

\* the sequences of length n in the queue
CountLen(q, n) == Cardinality({i \in 1..Len(q) : Len(q[i]) = n})

\* at a test of the loop condition
ParseStates ==
    pc # "idle" =>
        LET n == Len(input) IN
        /\ n >= 2 => (pc = "loop" /\ queue # <<>> /\ CountLen(queue, n) >= 1)
        /\ n <= 1 => \/ pops = 0 /\ queue = <<input>> /\ out = <<>> /\ pc = "loop"
                     \/ pops = 1 /\ queue = <<>> /\ out = input
        /\ pc = "done" => (n <= 1 /\ pops = 1 /\ queue = <<>> /\ out = input)

\* what an iteration on an input of length n >= 2 does to the queue
ParseSteps ==
    (pops' = pops + 1 /\ Len(input) >= 2) =>
        LET n == Len(input)
            popped == Head(queue)
        IN /\ Len(popped) = n =>
                  /\ CountLen(queue', n) = CountLen(queue, n) - 1 + 2 * n
                  /\ Len(queue') >= Len(queue) - 1 + 2 * n
                  /\ \A k \in 1..(2 * n) : Len(queue'[Len(queue) - 1 + k]) = n
                  /\ out' = out
           /\ Len(popped) = 1 => (queue' = Tail(queue) /\ out' = Append(out, popped[1]))
           /\ Len(popped) \in 1..n

\* C10: for an input of length n >= 2 the queue holds a sequence of length
\* n at every test of the loop condition (a popped sequence of length n
\* enqueues 2n successors of length n, a popped singleton enqueues
\* nothing), so parse never ends by itself; an input of length 1 is yielded
\* once and parse ends; the empty input yields nothing and parse ends.
C10_ParseNeverExhausts == []ParseStates /\ [][ParseSteps]_vars

C10_Witness ==
    /\ Len(input) = 2
    /\ pops = MaxPops
    /\ Len(out) >= 1
    /\ CountLen(queue, 2) >= 4 * MaxPops - 8

---------------------------------------------------------------------------
(* Claims about unify and the binary rules, under SpecRules.               *)

\* v is c or a part of c
RECURSIVE OccursIn(_, _)
OccursIn(v, c) ==
    \/ c = v
    \/ Len(c) = 3 /\ (OccursIn(v, c[2]) \/ OccursIn(v, c[3]))

RECURSIVE Ground(_)
Ground(c) ==
    IF Len(c) = 3 THEN Ground(c[2]) /\ Ground(c[3]) ELSE c[1] = "A"

SelfBound(subs) == \E i \in 1..Len(subs) : OccursIn(subs[i][1], subs[i][2])

Keys(subs) == {subs[i][1] : i \in 1..Len(subs)}

\* C1: a substitution returned by unify is in solved form and idempotent:
\* no key of it occurs in the value of any of its entries, and applying it
\* twice to a category gives what applying it once gives.
C1_UnifySolvedForm ==
    (op = "unify" /\ res.ok) =>
        /\ \A i \in 1..Len(res.subs) : \A k \in Keys(res.subs) : ~OccursIn(k, res.subs[i][2])
        /\ \A c \in {x, y} :
               substitute(res.subs, substitute(res.subs, c)) = substitute(res.subs, c)

\* C2: occurs-check: unify([(v, t)]) and unify([(t, v)]) fail when the
\* variable v occurs in t and t # v.
C2_OccursCheck ==
    (/\ op = "unify"
     /\ x # y
     /\ \/ IsUnbound(x) /\ OccursIn(x, y)
        \/ IsUnbound(y) /\ OccursIn(y, x))
    => ~res.ok

C2_Witness ==
    /\ op = "unify"
    /\ IsUnbound(y) /\ OccursIn(y, x) /\ count(x) = MaxSize
    /\ ~res.ok

\* C3: no entry (v, t) of the binding list returned by unify or by a binary
\* rule has v occurring in t.
C3_NoSelfBinding == (op # "init" /\ res.ok) => ~SelfBound(res.subs)

C8_LeftComposition ==
    (op = "left_composition" /\ IsLeft(x) /\ IsLeft(y)) =>
        /\ (Ground(x) /\ Ground(y) /\ x[2] = y[3]) =>
               (res.ok /\ res.cat = Left(y[2], x[3]))
        /\ (Ground(x) /\ Ground(y) /\ x[2] # y[3]) => ~res.ok
        /\ ~unify(<< <<x[2], y[3]>> >>).ok => ~res.ok

C8_Witness ==
    /\ op = "left_composition"
    /\ IsLeft(x) /\ IsLeft(y) /\ Ground(x) /\ Ground(y)
    /\ x[2] = y[3] /\ x[3] # x[2] /\ y[2] # y[3]
    /\ res.ok /\ res.cat = Left(y[2], x[3])

====
